---- MODULE Spec2Model ----
(***************************************************************************)
(* Model of src/index.js: the row-processing pipeline of main() with its   *)
(* helpers normalizeHeader, findFileByBase, computePublishAtForIndex and   *)
(* writeArrayOfArraysToSheetAndSave.                                       *)
(*                                                                         *)
(* Conventions.                                                            *)
(*  - A text (a JavaScript string held in a cell, a header label, a file   *)
(*    name) is a sequence of one-character strings; "bian","hao" and       *)
(*    "yi","shang","chuan" each stand for one CJK character of the labels  *)
(*    the code searches for.  A status text written by the run is a text   *)
(*    of one chunk.                                                        *)
(*  - Positions are 1-based here and 0-based in the code: position 0       *)
(*    stands for the code's -1 ("not found"), row 1 is the header and      *)
(*    rows 2.. are the data rows (the code's values[1..]).                 *)
(*  - A Date is [nan, ms]: nan is TRUE for an Invalid Date (getTime() is   *)
(*    NaN), otherwise ms is getTime().                                     *)
(*  - The title, description and tags of a job are not modelled: they are  *)
(*    read from the row and passed to the Publisher, and touch no state.   *)
(***************************************************************************)
EXTENDS Integers, Sequences, FiniteSets, TLC

\* Largest number of data rows of a sheet.
MaxRows == 3

-----------------------------------------------------------------------------
(* Texts *)

Null == "<null>"

T_ID == <<"I", "D">>
T_vid == <<"v", "i", "d">>
T_no == <<"N", "o">>
T_Uploaded == <<"U", "p", "l", "o", "a", "d", "e", "d">>
T_uploaded == <<"u", "p", "l", "o", "a", "d", "e", "d">>
T_yishangchuan == <<"yi", "shang", "chuan">>
T_bianhao == <<"bian", "hao">>
T_id == <<"i", "d">>

\* String.prototype.toLowerCase on one character.
LowerChar(c) ==
  CASE c = "I" -> "i"
    [] c = "D" -> "d"
    [] c = "N" -> "n"
    [] c = "U" -> "u"
    [] OTHER -> c

toLowerCase(s) == [i \in 1..Len(s) |-> LowerChar(s[i])]

RECURSIVE trimStart(_)
trimStart(s) == IF s # <<>> /\ Head(s) = " " THEN trimStart(Tail(s)) ELSE s

RECURSIVE trimEnd(_)
trimEnd(s) ==
  IF s # <<>> /\ s[Len(s)] = " " THEN trimEnd(SubSeq(s, 1, Len(s) - 1)) ELSE s

\* String.prototype.trim
trim(s) == trimEnd(trimStart(s))

\* String.prototype.startsWith
startsWith(s, p) == Len(p) <= Len(s) /\ SubSeq(s, 1, Len(p)) = p

\* String.prototype.includes
includes(s, sub) ==
  \E i \in 1..(Len(s) + 1) :
    i + Len(sub) - 1 <= Len(s) /\ SubSeq(s, i, i + Len(sub) - 1) = sub

\* The characters of a text joined into one string.
RECURSIVE Join(_)
Join(s) == IF s = <<>> THEN "" ELSE Head(s) \o Join(Tail(s))

\* Array.prototype.findIndex / find over the set of matching positions: the
\* first matching 1-based position, 0 when nothing matches.
FindIndex(matching) ==
  IF matching = {} THEN 0 ELSE CHOOSE i \in matching : \A j \in matching : i <= j

normalizeHeader(h) == toLowerCase(trim(h))

-----------------------------------------------------------------------------
(* Media Matcher *)

\* path.parse(f).name: the file name without its last extension.
ParseName(f) ==
  LET dots == {i \in 2..Len(f) : f[i] = "."}
  IN IF dots = {} THEN f
     ELSE SubSeq(f, 1, (CHOOSE i \in dots : \A j \in dots : j <= i) - 1)

\* Variant of findFileByBase without the pass for the exact base name.
findFileByBase_FirstPrefix(folder, baseName) ==
  IF ~folder.ok THEN Null
  ELSE LET files == folder.files
           starts == FindIndex({i \in 1..Len(files) :
                                  startsWith(ParseName(files[i]), baseName)})
       IN IF starts # 0 THEN Join(files[starts]) ELSE Null

\* folder is [ok, files]: ok is FALSE when fs.readdirSync throws.
findFileByBase(folder, baseName) ==
  IF ~folder.ok THEN Null
  ELSE LET files == folder.files
           exact == FindIndex({i \in 1..Len(files) : ParseName(files[i]) = baseName})
           starts == FindIndex({i \in 1..Len(files) :
                                  startsWith(ParseName(files[i]), baseName)})
       IN IF exact # 0 THEN Join(files[exact])
          ELSE IF starts # 0 THEN Join(files[starts])
          ELSE Null

-----------------------------------------------------------------------------
(* Schedule Planner *)

Pad2(n) == IF n < 10 THEN "0" \o ToString(n) ELSE ToString(n)

Pad3(n) == IF n < 100 THEN "0" \o Pad2(n) ELSE ToString(n)

\* Date.prototype.toISOString of a valid Date in January 1970 (UTC fields).
toISOString(ms) ==
  LET day == ms \div (24 * 60 * 60 * 1000)
      inDay == ms % (24 * 60 * 60 * 1000)
      hh == inDay \div (60 * 60 * 1000)
      mm == (inDay % (60 * 60 * 1000)) \div (60 * 1000)
      ss == (inDay % (60 * 1000)) \div 1000
  IN "1970-01-" \o Pad2(day + 1) \o "T" \o Pad2(hh) \o ":" \o Pad2(mm)
       \o ":" \o Pad2(ss) \o "." \o Pad3(inDay % 1000) \o "Z"

\* Variant of LocalDate that takes the fields as UTC.
LocalDate_UTC(parts, time, tz) ==
  IF Len(parts) < 3 \/ Len(time) < 2 THEN [nan |-> TRUE, ms |-> 0]
  ELSE [nan |-> FALSE,
        ms |-> (parts[3] - 1) * 24 * 60 * 60 * 1000 + (time[1] * 60 + time[2]) * 60 * 1000]

\* new Date(year, monthIndex, day, hours, minutes, 0, 0): the fields are local
\* wall-clock time, tz is Date.prototype.getTimezoneOffset() in minutes.  The
\* split date has fewer than three parts when the text is not YYYY-MM-DD, and
\* the day is then undefined and the Date invalid.  Dates of January 1970.
LocalDate(parts, time, tz) ==
  IF Len(parts) < 3 \/ Len(time) < 2 THEN [nan |-> TRUE, ms |-> 0]
  ELSE [nan |-> FALSE,
        ms |-> (parts[3] - 1) * 24 * 60 * 60 * 1000
                 + (time[1] * 60 + time[2] + tz) * 60 * 1000]

\* Variant of computePublishAtForIndex that counts the slots from one.
computePublishAtForIndex_OneBased(scheduledIndex, scheduleOptions, tz) ==
  IF scheduleOptions.type = "none" THEN [throws |-> FALSE, value |-> Null]
  ELSE IF scheduleOptions.type = "start_interval"
  THEN IF scheduleOptions.startAt.nan THEN [throws |-> TRUE, value |-> Null]
       ELSE [throws |-> FALSE,
             value |-> toISOString(scheduleOptions.startAt.ms
                         + (scheduledIndex + 1) * scheduleOptions.intervalMins * 60 * 1000)]
  ELSE IF scheduleOptions.type = "daily"
  THEN LET base == LocalDate(scheduleOptions.startDate, scheduleOptions.timeOfDay, tz)
           dayOffset == (scheduledIndex + 1) \div scheduleOptions.perDay
           indexInDay == (scheduledIndex + 1) % scheduleOptions.perDay
       IN IF base.nan THEN [throws |-> TRUE, value |-> Null]
          ELSE [throws |-> FALSE,
                value |-> toISOString(base.ms + dayOffset * 24 * 60 * 60 * 1000
                            + indexInDay * scheduleOptions.spacingMins * 60 * 1000)]
  ELSE [throws |-> FALSE, value |-> Null]

\* The result is [throws, value]: toISOString throws a RangeError on an
\* Invalid Date; value is the ISO text or Null.
computePublishAtForIndex(scheduledIndex, scheduleOptions, tz) ==
  IF scheduleOptions.type = "none" THEN [throws |-> FALSE, value |-> Null]
  ELSE IF scheduleOptions.type = "start_interval"
  THEN IF scheduleOptions.startAt.nan THEN [throws |-> TRUE, value |-> Null]
       ELSE [throws |-> FALSE,
             value |-> toISOString(scheduleOptions.startAt.ms
                         + scheduledIndex * scheduleOptions.intervalMins * 60 * 1000)]
  ELSE IF scheduleOptions.type = "daily"
  THEN LET base == LocalDate(scheduleOptions.startDate, scheduleOptions.timeOfDay, tz)
           dayOffset == scheduledIndex \div scheduleOptions.perDay
           indexInDay == scheduledIndex % scheduleOptions.perDay
       IN IF base.nan THEN [throws |-> TRUE, value |-> Null]
          ELSE [throws |-> FALSE,
                value |-> toISOString(base.ms + dayOffset * 24 * 60 * 60 * 1000
                            + indexInDay * scheduleOptions.spacingMins * 60 * 1000)]
  ELSE [throws |-> FALSE, value |-> Null]

-----------------------------------------------------------------------------
(* The answers to the prompts and the environment of a run *)

NoDate == [nan |-> TRUE, ms |-> 0]

ScheduleOptions(type, startAt, intervalMins, startDate, timeOfDay, perDay, spacingMins) ==
  [type |-> type, startAt |-> startAt, intervalMins |-> intervalMins,
   startDate |-> startDate, timeOfDay |-> timeOfDay, perDay |-> perDay,
   spacingMins |-> spacingMins]

\* The configurations the prompts of main() can build: Immediate, a fixed
\* interval from a valid and from an unparsable start time, daily batches
\* from a valid and from a malformed start date.
ScheduleChoices ==
  { ScheduleOptions("none", NoDate, 0, <<>>, <<>>, 1, 0),
    ScheduleOptions("start_interval", [nan |-> FALSE, ms |-> 10 * 60 * 1000], 10, <<>>, <<>>, 1, 0),
    ScheduleOptions("start_interval", NoDate, 10, <<>>, <<>>, 1, 0),
    ScheduleOptions("daily", NoDate, 0, <<1970, 1, 2>>, <<23, 30>>, 2, 45),
    ScheduleOptions("daily", NoDate, 0, <<1970, 1>>, <<10, 0>>, 1, 1) }

TimezoneOffsets(opts) == IF opts.type = "daily" /\ Len(opts.startDate) = 3 THEN {0, -60} ELSE {0}

IdColumnChoices == { T_bianhao, <<" ", "I", "d">> }

HeaderChoices ==
  { <<T_ID>>,
    <<T_vid, <<"I", "d", " ">>, T_Uploaded>>,
    <<T_no>>,
    <<T_yishangchuan, T_vid>> }

RowChoices ==
  { << <<"a">> >>,
    << <<" ">>, <<"a">>, <<"o", "l", "d">> >>,
    << <<"o", "l", "d">>, <<" ", "b">>, <<"o", "l", "d">> >>,
    <<>> }

FolderChoices ==
  { [ok |-> TRUE, files |-> << <<"a", "b", ".", "m">>, <<"a", ".", "m">>, <<"o", "l", "d", "e", "r">> >>],
    [ok |-> FALSE, files |-> <<>>] }

RECURSIVE SeqsUpTo(_, _)
SeqsUpTo(S, n) ==
  IF n = 0 THEN {<<>>}
  ELSE LET shorter == SeqsUpTo(S, n - 1)
       IN shorter \cup {Append(q, x) : q \in {t \in shorter : Len(t) = n - 1}, x \in S}

\* The persistent sheet: [ok, rows].  ok is FALSE when the workbook or the
\* worksheet cannot be read; rows is empty for a worksheet without rows.
StorageChoices ==
  { [ok |-> TRUE, rows |-> <<h>> \o d] : h \in HeaderChoices, d \in SeqsUpTo(RowChoices, MaxRows) }
    \cup { [ok |-> TRUE, rows |-> <<>>], [ok |-> FALSE, rows |-> <<>>] }

-----------------------------------------------------------------------------
(* main() *)

VARIABLES
  basicAnswers,      \* [idColumn, folder, doUpload]: the answers of the first prompt
  scheduleOptions,   \* the configuration built from the scheduling prompts
  tzOffset,          \* the time zone of the process, minutes (getTimezoneOffset)
  storage,           \* the worksheet on disk
  values,            \* the in-memory row matrix
  idColIndex,        \* position of the identifier column, 0 before resolution
  uploadedColIndex,  \* position of the status column, 0 before resolution
  youtube,           \* TRUE once the API client exists (null otherwise)
  scheduledCount,    \* the slot counter
  r,                 \* the row the loop is at (2 is the first data row)
  publishAt,         \* publishAt of the row whose insert call is pending
  videoPath,         \* media file of the row whose insert call is pending
  pc,                \* where main() stands
  error,             \* the error caught by the outer try of main(), Null if none
  calls,             \* history: the youtube.videos.insert calls made
  lookups,           \* history: the rows findFileByBase was called for
  log,               \* history: one entry per data row the loop has finished
  writes             \* history: number of workbook.xlsx.writeFile calls

inputs == <<basicAnswers, scheduleOptions, tzOffset>>
history == <<calls, lookups, log, writes>>
vars == <<basicAnswers, scheduleOptions, tzOffset, storage, values, idColIndex,
          uploadedColIndex, youtube, scheduledCount, r, publishAt, videoPath,
          pc, error, calls, lookups, log, writes>>

\* (new Date()).toISOString() at the time a status is written.
Timestamp == "<now>"

\* err.message of a rejected insert call; Null when the error has none.
ErrMessages == {"quotaExceeded", Null}

\* row[i]; the empty text stands for undefined and for ''.
Cell(row, i) == IF i \in 1..Len(row) THEN row[i] ELSE <<>>

\* Variant of SetCell that pushes the text at the end of the row.
SetCell_Push(row, i, text) == Append(row, text)

\* row[i] = text, which pads a shorter row with holes.
SetCell(row, i, text) ==
  IF i <= Len(row) THEN [row EXCEPT ![i] = text]
  ELSE row \o [k \in 1..(i - Len(row) - 1) |-> <<>>] \o <<text>>

\* values[row][uploadedColIndex] = text
WriteStatus(vals, row, col, text) == [vals EXCEPT ![row] = SetCell(vals[row], col, text)]

\* Variant of IsBlankId that does not trim the cell.
IsBlankId_NoTrim(idCell) == idCell = <<>>

\* !idCell || idCell.toString().trim() === ''
IsBlankId(idCell) == idCell = <<>> \/ trim(idCell) = <<>>

MissingFileText == <<"MISSING FILE">>

PublishAtOrNow(p) == IF p = Null THEN "NOW" ELSE p

SimulatedText(file, p) ==
  << Timestamp \o " | SIMULATED | file: " \o file \o " | publishAt: " \o PublishAtOrNow(p) >>

UploadedText(videoId, p) ==
  << Timestamp \o " | videoId: " \o videoId \o " | publishAt: " \o PublishAtOrNow(p) >>

ErrorText(msg) == << "ERROR: " \o (IF msg = Null THEN "upload failed" ELSE msg) >>

\* Variant of CountScheduled that counts under every policy.
CountScheduled_Always(count, opts) == count + 1

\* if (scheduleOptions && scheduleOptions.type !== 'none') scheduledCount++
CountScheduled(count, opts) == IF opts.type # "none" THEN count + 1 ELSE count

\* The identifier column of a header row for a user-supplied label: the first
\* normalized cell equal to the normalized label, else the first one that
\* contains one of the two identifier substrings, else 0.
FindIdColumn(header, idColumn) ==
  LET headers == [i \in 1..Len(header) |-> normalizeHeader(header[i])]
      idColNormalized == normalizeHeader(idColumn)
      exact == FindIndex({i \in 1..Len(headers) : headers[i] = idColNormalized})
  IN IF exact # 0 THEN exact
     ELSE FindIndex({i \in 1..Len(headers) :
                       includes(headers[i], T_bianhao) \/ includes(headers[i], T_id)})

\* The status column of a header row, 0 when there is none.
FindUploadedColumn(header) ==
  LET headers == [i \in 1..Len(header) |-> normalizeHeader(header[i])]
  IN FindIndex({i \in 1..Len(headers) :
                  headers[i] = T_uploaded \/ headers[i] = T_yishangchuan})

LogEntry(row, outcome, text, p, before, after) ==
  [row |-> row, outcome |-> outcome, text |-> text, publishAt |-> p,
   slotBefore |-> before, slotAfter |-> after]

Init ==
  /\ basicAnswers \in [idColumn : IdColumnChoices, folder : FolderChoices, doUpload : BOOLEAN]
  /\ scheduleOptions \in ScheduleChoices
  /\ tzOffset \in TimezoneOffsets(scheduleOptions)
  /\ storage \in StorageChoices
  /\ values = <<>>
  /\ idColIndex = 0
  /\ uploadedColIndex = 0
  /\ youtube = FALSE
  /\ scheduledCount = 0
  /\ r = 0
  /\ publishAt = Null
  /\ videoPath = Null
  /\ pc = "read"
  /\ error = Null
  /\ calls = <<>>
  /\ lookups = {}
  /\ log = <<>>
  /\ writes = 0

\* readSheetToArrayOfArrays and the empty-sheet return.
ReadSheet ==
  /\ pc = "read"
  /\ IF ~storage.ok
     THEN /\ pc' = "caught"
          /\ error' = "sheet unreadable"
          /\ UNCHANGED values
     ELSE /\ values' = storage.rows
          /\ pc' = IF storage.rows = <<>> THEN "returned" ELSE "resolve"
          /\ UNCHANGED error
  /\ UNCHANGED <<inputs, storage, idColIndex, uploadedColIndex, youtube, scheduledCount,
                 r, publishAt, videoPath, history>>

\* Variant of ResolveHeader that appends the status column before it looks
\* for the identifier column.
ResolveHeader_AppendsFirst ==
  /\ pc = "resolve"
  /\ LET idCol == FindIdColumn(values[1], basicAnswers.idColumn)
         upCol == FindUploadedColumn(values[1])
     IN /\ IF upCol = 0
           THEN values' = [values EXCEPT ![1] = Append(values[1], T_Uploaded)]
           ELSE UNCHANGED values
        /\ IF idCol = 0
           THEN /\ pc' = "returned"
                /\ UNCHANGED <<idColIndex, uploadedColIndex>>
           ELSE /\ idColIndex' = idCol
                /\ uploadedColIndex' = IF upCol = 0 THEN Len(values[1]) + 1 ELSE upCol
                /\ pc' = "auth"
  /\ UNCHANGED <<inputs, storage, youtube, scheduledCount, r, publishAt, videoPath,
                 error, history>>

\* Header resolution: the identifier column or the early return, then the
\* status column, appended to the header row when missing.
ResolveHeader ==
  /\ pc = "resolve"
  /\ LET idCol == FindIdColumn(values[1], basicAnswers.idColumn)
         upCol == FindUploadedColumn(values[1])
     IN IF idCol = 0
        THEN /\ pc' = "returned"
             /\ UNCHANGED <<values, idColIndex, uploadedColIndex>>
        ELSE /\ idColIndex' = idCol
             /\ IF upCol = 0
                THEN /\ uploadedColIndex' = Len(values[1]) + 1
                     /\ values' = [values EXCEPT ![1] = Append(values[1], T_Uploaded)]
                ELSE /\ uploadedColIndex' = upCol
                     /\ UNCHANGED values
             /\ pc' = "auth"
  /\ UNCHANGED <<inputs, storage, youtube, scheduledCount, r, publishAt, videoPath,
                 error, history>>

\* authorize() succeeded, or publishing is disabled: the loop starts.
StartLoop ==
  /\ pc = "auth"
  /\ youtube' = basicAnswers.doUpload
  /\ scheduledCount' = 0
  /\ r' = 2
  /\ pc' = "loop"
  /\ UNCHANGED <<inputs, storage, values, idColIndex, uploadedColIndex, publishAt,
                 videoPath, error, history>>

\* authorize() threw (no credentials, no authorization code).
AuthorizeFails ==
  /\ pc = "auth"
  /\ basicAnswers.doUpload
  /\ pc' = "caught"
  /\ error' = "authorize failed"
  /\ UNCHANGED <<inputs, storage, values, idColIndex, uploadedColIndex, youtube,
                 scheduledCount, r, publishAt, videoPath, history>>

InLoop == pc = "loop" /\ r <= Len(values)

IdCellOf(vals, row, idCol) == Cell(vals[row], idCol)

\* Variant of SkipRow that records the skip in the status cell.
SkipRow_WritesStatus ==
  /\ InLoop
  /\ IsBlankId(IdCellOf(values, r, idColIndex))
  /\ values' = WriteStatus(values, r, uploadedColIndex, <<"SKIPPED">>)
  /\ r' = r + 1
  /\ log' = Append(log, LogEntry(r, "Skipped", <<"SKIPPED">>, Null, scheduledCount,
                                 scheduledCount))
  /\ UNCHANGED <<inputs, storage, idColIndex, uploadedColIndex, youtube, scheduledCount,
                 publishAt, videoPath, pc, error, calls, lookups, writes>>

\* A row without identifier: continue.
SkipRow ==
  /\ InLoop
  /\ IsBlankId(IdCellOf(values, r, idColIndex))
  /\ r' = r + 1
  /\ log' = Append(log, LogEntry(r, "Skipped", Null, Null, scheduledCount, scheduledCount))
  /\ UNCHANGED <<inputs, storage, values, idColIndex, uploadedColIndex, youtube,
                 scheduledCount, publishAt, videoPath, pc, error, calls, lookups, writes>>

\* Variant of MissingFile that advances the slot counter.
MissingFile_ConsumesSlot ==
  /\ InLoop
  /\ ~IsBlankId(IdCellOf(values, r, idColIndex))
  /\ findFileByBase(basicAnswers.folder, trim(IdCellOf(values, r, idColIndex))) = Null
  /\ lookups' = lookups \cup {r}
  /\ values' = WriteStatus(values, r, uploadedColIndex, MissingFileText)
  /\ scheduledCount' = CountScheduled(scheduledCount, scheduleOptions)
  /\ r' = r + 1
  /\ log' = Append(log, LogEntry(r, "MissingFile", MissingFileText, Null, scheduledCount,
                                 CountScheduled(scheduledCount, scheduleOptions)))
  /\ UNCHANGED <<inputs, storage, idColIndex, uploadedColIndex, youtube, publishAt,
                 videoPath, pc, error, calls, writes>>

\* Variant of MissingFile that continues without writing the status.
MissingFile_NoStatus ==
  /\ InLoop
  /\ ~IsBlankId(IdCellOf(values, r, idColIndex))
  /\ findFileByBase(basicAnswers.folder, trim(IdCellOf(values, r, idColIndex))) = Null
  /\ lookups' = lookups \cup {r}
  /\ r' = r + 1
  /\ log' = Append(log, LogEntry(r, "MissingFile", Null, Null, scheduledCount,
                                 scheduledCount))
  /\ UNCHANGED <<inputs, storage, values, idColIndex, uploadedColIndex, youtube,
                 scheduledCount, publishAt, videoPath, pc, error, calls, writes>>

\* A row whose media file is not found: MISSING FILE, continue.
MissingFile ==
  /\ InLoop
  /\ ~IsBlankId(IdCellOf(values, r, idColIndex))
  /\ findFileByBase(basicAnswers.folder, trim(IdCellOf(values, r, idColIndex))) = Null
  /\ lookups' = lookups \cup {r}
  /\ values' = WriteStatus(values, r, uploadedColIndex, MissingFileText)
  /\ r' = r + 1
  /\ log' = Append(log, LogEntry(r, "MissingFile", MissingFileText, Null,
                                 scheduledCount, scheduledCount))
  /\ UNCHANGED <<inputs, storage, idColIndex, uploadedColIndex, youtube, scheduledCount,
                 publishAt, videoPath, pc, error, calls, writes>>

\* The media file of the row the loop is at, Null when there is none.
CurrentFile == findFileByBase(basicAnswers.folder, trim(IdCellOf(values, r, idColIndex)))

\* The result of the Schedule Planner for the row the loop is at.
Planned == computePublishAtForIndex(scheduledCount, scheduleOptions, tzOffset)

\* The row the loop is at has an identifier and a media file.
Ready ==
  /\ InLoop
  /\ ~IsBlankId(IdCellOf(values, r, idColIndex))
  /\ CurrentFile # Null

\* toISOString threw inside computePublishAtForIndex: the outer catch of main().
PlannerThrows ==
  /\ Ready
  /\ Planned.throws
  /\ lookups' = lookups \cup {r}
  /\ pc' = "caught"
  /\ error' = "RangeError: Invalid time value"
  /\ UNCHANGED <<inputs, storage, values, idColIndex, uploadedColIndex, youtube,
                 scheduledCount, r, publishAt, videoPath, calls, log, writes>>

\* Variant of Simulate that leaves the slot counter as it is.
Simulate_KeepsSlot ==
  /\ InLoop
  /\ ~IsBlankId(IdCellOf(values, r, idColIndex))
  /\ CurrentFile # Null
  /\ ~Planned.throws
  /\ ~basicAnswers.doUpload
  /\ lookups' = lookups \cup {r}
  /\ LET text == SimulatedText(CurrentFile, Planned.value)
     IN /\ values' = WriteStatus(values, r, uploadedColIndex, text)
        /\ log' = Append(log, LogEntry(r, "Simulated", text, Planned.value, scheduledCount,
                                       scheduledCount))
  /\ r' = r + 1
  /\ UNCHANGED <<inputs, storage, idColIndex, uploadedColIndex, youtube, scheduledCount,
                 publishAt, videoPath, pc, error, calls, writes>>

\* Simulation mode: the SIMULATED status, the slot counter, continue.
Simulate ==
  /\ Ready
  /\ ~Planned.throws
  /\ ~basicAnswers.doUpload
  /\ lookups' = lookups \cup {r}
  /\ LET text == SimulatedText(CurrentFile, Planned.value)
     IN /\ values' = WriteStatus(values, r, uploadedColIndex, text)
        /\ log' = Append(log, LogEntry(r, "Simulated", text, Planned.value, scheduledCount,
                                       CountScheduled(scheduledCount, scheduleOptions)))
  /\ scheduledCount' = CountScheduled(scheduledCount, scheduleOptions)
  /\ r' = r + 1
  /\ UNCHANGED <<inputs, storage, idColIndex, uploadedColIndex, youtube, publishAt,
                 videoPath, pc, error, calls, writes>>

\* youtube.videos.insert is called and awaited.
CallPublisher ==
  /\ Ready
  /\ ~Planned.throws
  /\ basicAnswers.doUpload
  /\ lookups' = lookups \cup {r}
  /\ publishAt' = Planned.value
  /\ videoPath' = CurrentFile
  /\ calls' = Append(calls, [row |-> r, publishAt |-> Planned.value,
                             privacyStatus |-> IF Planned.value # Null THEN "private"
                                               ELSE "public"])
  /\ pc' = "insert"
  /\ UNCHANGED <<inputs, storage, values, idColIndex, uploadedColIndex, youtube,
                 scheduledCount, r, error, log, writes>>

\* Variant of InsertResolves that saves the workbook after each upload.
InsertResolves_Saves ==
  /\ pc = "insert"
  /\ LET text == UploadedText("v" \o ToString(Len(calls)), publishAt)
     IN /\ values' = WriteStatus(values, r, uploadedColIndex, text)
        /\ storage' = [ok |-> TRUE, rows |-> WriteStatus(values, r, uploadedColIndex, text)]
        /\ log' = Append(log, LogEntry(r, "Uploaded", text, publishAt, scheduledCount,
                                       CountScheduled(scheduledCount, scheduleOptions)))
  /\ writes' = writes + 1
  /\ scheduledCount' = CountScheduled(scheduledCount, scheduleOptions)
  /\ r' = r + 1
  /\ pc' = "loop"
  /\ publishAt' = Null
  /\ videoPath' = Null
  /\ UNCHANGED <<inputs, idColIndex, uploadedColIndex, youtube, error, calls, lookups>>

\* The insert call resolved: the uploaded status, the slot counter, next row.
InsertResolves ==
  /\ pc = "insert"
  /\ LET text == UploadedText("v" \o ToString(Len(calls)), publishAt)
     IN /\ values' = WriteStatus(values, r, uploadedColIndex, text)
        /\ log' = Append(log, LogEntry(r, "Uploaded", text, publishAt, scheduledCount,
                                       CountScheduled(scheduledCount, scheduleOptions)))
  /\ scheduledCount' = CountScheduled(scheduledCount, scheduleOptions)
  /\ r' = r + 1
  /\ pc' = "loop"
  /\ publishAt' = Null
  /\ videoPath' = Null
  /\ UNCHANGED <<inputs, storage, idColIndex, uploadedColIndex, youtube, error, calls,
                 lookups, writes>>

\* Variant of InsertRejects that advances the slot counter.
InsertRejects_ConsumesSlot ==
  /\ pc = "insert"
  /\ \E msg \in ErrMessages :
       /\ values' = WriteStatus(values, r, uploadedColIndex, ErrorText(msg))
       /\ log' = Append(log, LogEntry(r, "Failed", ErrorText(msg), publishAt, scheduledCount,
                                      CountScheduled(scheduledCount, scheduleOptions)))
  /\ scheduledCount' = CountScheduled(scheduledCount, scheduleOptions)
  /\ r' = r + 1
  /\ pc' = "loop"
  /\ publishAt' = Null
  /\ videoPath' = Null
  /\ UNCHANGED <<inputs, storage, idColIndex, uploadedColIndex, youtube, error, calls,
                 lookups, writes>>

\* The insert call rejected: the ERROR status, the slot counter stays, next row.
InsertRejects ==
  /\ pc = "insert"
  /\ \E msg \in ErrMessages :
       /\ values' = WriteStatus(values, r, uploadedColIndex, ErrorText(msg))
       /\ log' = Append(log, LogEntry(r, "Failed", ErrorText(msg), publishAt,
                                      scheduledCount, scheduledCount))
  /\ r' = r + 1
  /\ pc' = "loop"
  /\ publishAt' = Null
  /\ videoPath' = Null
  /\ UNCHANGED <<inputs, storage, idColIndex, uploadedColIndex, youtube, scheduledCount,
                 error, calls, lookups, writes>>

\* writeArrayOfArraysToSheetAndSave: every row of the worksheet is replaced by
\* the rows of the matrix and the workbook is written.
Flush ==
  /\ pc = "loop"
  /\ r > Len(values)
  /\ storage' = [ok |-> TRUE, rows |-> values]
  /\ writes' = writes + 1
  /\ pc' = "done"
  /\ UNCHANGED <<inputs, values, idColIndex, uploadedColIndex, youtube, scheduledCount, r,
                 publishAt, videoPath, error, calls, lookups, log>>

Next ==
  \/ ReadSheet
  \/ ResolveHeader
  \/ StartLoop
  \/ AuthorizeFails
  \/ SkipRow
  \/ MissingFile
  \/ PlannerThrows
  \/ Simulate
  \/ CallPublisher
  \/ InsertResolves
  \/ InsertRejects
  \/ Flush

Spec == Init /\ [][Next]_vars

TypeOK ==
  /\ pc \in {"read", "resolve", "auth", "loop", "insert", "done", "returned", "caught",
            "plan", "planned", "match", "matched", "resolved"}
  /\ scheduledCount \in 0..MaxRows
  /\ r \in 0..(MaxRows + 2)

-----------------------------------------------------------------------------
(* Vocabulary of the properties *)

Scheduled == scheduleOptions.type # "none"

LogIndex == 1..Len(log)

Consumed(e) == e.outcome \in {"Uploaded", "Simulated"}

\* The data row has an identifier and the folder holds a media file for it.
HasFile(row) ==
  /\ trim(Cell(values[row], idColIndex)) # <<>>
  /\ findFileByBase(basicAnswers.folder, trim(Cell(values[row], idColIndex))) # Null

\* The header row has no identifier column for the label.
NoIdentifierColumn(header, label) ==
  \A i \in 1..Len(header) :
    /\ normalizeHeader(header[i]) # normalizeHeader(label)
    /\ ~includes(normalizeHeader(header[i]), T_bianhao)
    /\ ~includes(normalizeHeader(header[i]), T_id)

\* The loop has passed its last row: the next step is the final flush.
AtFlush == pc = "loop" /\ r > Len(values)

-----------------------------------------------------------------------------
(* Properties *)

\* C1: with a policy other than Immediate and publishing enabled, a row whose
\* publish call fails leaves the slot counter as it was, and the next later
\* row whose publish call succeeds is given the publishAt computed for the
\* failed row.
C1_SlotNonConsumption ==
  (Scheduled /\ basicAnswers.doUpload) =>
    \A k \in LogIndex :
      log[k].outcome = "Failed" =>
        /\ log[k].slotAfter = log[k].slotBefore
        /\ (k = Len(log) => scheduledCount = log[k].slotBefore)
        /\ \A j \in (k + 1)..Len(log) :
             (/\ log[j].outcome = "Uploaded"
              /\ \A m \in (k + 1)..(j - 1) : log[m].outcome # "Uploaded")
             => /\ log[j].publishAt = log[k].publishAt
                /\ \E c \in 1..Len(calls) :
                     calls[c].row = log[j].row /\ calls[c].publishAt = log[k].publishAt

C1_Witness ==
  /\ Scheduled
  /\ basicAnswers.doUpload
  /\ \E k \in LogIndex, j \in LogIndex :
       /\ k < j
       /\ log[k].outcome = "Failed"
       /\ log[j].outcome = "Uploaded"
       /\ \E i \in LogIndex : i < k /\ log[i].outcome = "Uploaded"
       /\ log[j].publishAt = log[k].publishAt
       /\ log[j].publishAt # Null

\* C2: with a policy other than Immediate, the rows that ended Uploaded or
\* Simulated hold the slots 0, 1, 2, ... in row order: the j-th of them was
\* given publishAt(j), the slot counter is their number, and the rows that
\* ended Failed, MissingFile or Skipped leave the counter as it was.
C2_SlotsDense ==
  Scheduled =>
    LET S == SelectSeq(log, Consumed)
    IN /\ scheduledCount = Len(S)
       /\ \A j \in 1..Len(S) :
            /\ S[j].publishAt = computePublishAtForIndex(j - 1, scheduleOptions, tzOffset).value
            /\ S[j].slotBefore = j - 1
            /\ S[j].slotAfter = j
            /\ j > 1 => S[j - 1].row < S[j].row
            /\ S[j].outcome = "Uploaded" =>
                 \E c \in 1..Len(calls) :
                   calls[c].row = S[j].row /\ calls[c].publishAt = S[j].publishAt
       /\ \A i \in LogIndex : ~Consumed(log[i]) => log[i].slotAfter = log[i].slotBefore

C2_Witness ==
  /\ Scheduled
  /\ \E i \in LogIndex, k \in LogIndex, j \in LogIndex :
       /\ i < k /\ k < j
       /\ Consumed(log[i])
       /\ ~Consumed(log[k])
       /\ Consumed(log[j])
       /\ log[j].slotBefore = 1
       /\ log[i].publishAt # log[j].publishAt

\* C3: in simulation mode no Publisher call is ever made, and when the run
\* has ended after header resolution every data row with a resolved media
\* file has ended with the outcome Simulated.
C3_SimulationNeverPublishes ==
  ~basicAnswers.doUpload =>
    /\ calls = <<>>
    /\ (pc \in {"done", "caught"} /\ idColIndex # 0) =>
         \A row \in 2..Len(values) :
           HasFile(row) => \E i \in LogIndex : log[i].row = row /\ log[i].outcome = "Simulated"

\* The number of data rows above row that have an identifier and a media
\* file: the slot of row in a run without failed publish calls, whatever the
\* mode of the run.
ResolvedBefore(row) ==
  IF Scheduled THEN Cardinality({q \in 2..(row - 1) : q <= Len(values) /\ HasFile(q)}) ELSE 0

\* C4: a simulation run and a publishing run whose publish calls all succeed
\* agree on every row: the counter before and after each row and the
\* publishAt of each row are the same function of the sheet, the folder and
\* the configuration in both modes.
C4_SimulationCountsLikePublish ==
  (~basicAnswers.doUpload \/ \A i \in LogIndex : log[i].outcome # "Failed") =>
    /\ \A i \in LogIndex :
         /\ log[i].slotBefore = ResolvedBefore(log[i].row)
         /\ log[i].slotAfter = ResolvedBefore(log[i].row + 1)
         /\ HasFile(log[i].row) =>
              /\ Consumed(log[i])
              /\ log[i].publishAt =
                   computePublishAtForIndex(ResolvedBefore(log[i].row), scheduleOptions,
                                            tzOffset).value
    /\ pc \in {"loop", "insert", "done"} => scheduledCount = ResolvedBefore(r)

C4_Witness ==
  /\ ~basicAnswers.doUpload
  /\ Scheduled
  /\ pc = "done"
  /\ scheduledCount = 2
  /\ \E i \in LogIndex, j \in LogIndex :
       /\ i < j
       /\ log[i].outcome = "Simulated"
       /\ log[j].outcome = "Simulated"
       /\ log[i].publishAt # log[j].publishAt

\* C5: a data row with an identifier and no media file gets MISSING FILE in
\* its status cell, causes no Publisher call, leaves the slot counter as it
\* was, and the loop goes on to the next row.
C5_MissingFile ==
  [][ (/\ InLoop
       /\ trim(Cell(values[r], idColIndex)) # <<>>
       /\ findFileByBase(basicAnswers.folder, trim(Cell(values[r], idColIndex))) = Null)
      => /\ Cell(values'[r], uploadedColIndex) = MissingFileText
         /\ calls' = calls
         /\ scheduledCount' = scheduledCount
         /\ r' = r + 1
         /\ pc' = "loop" ]_vars

C5_Witness ==
  /\ pc = "loop"
  /\ log # <<>>
  /\ log[Len(log)].outcome = "MissingFile"
  /\ r = log[Len(log)].row + 1
  /\ r <= Len(values)
  /\ Cell(values[r - 1], uploadedColIndex) = MissingFileText
  /\ basicAnswers.folder.ok

\* C6: a data row whose identifier cell is empty or only whitespace is passed
\* over: no media lookup, no Publisher call, no write, the slot counter as it
\* was, so that the next row is planned with the slot this row was at.
C6_SkippedRow ==
  [][ (InLoop /\ trim(Cell(values[r], idColIndex)) = <<>>)
      => /\ lookups' = lookups
         /\ calls' = calls
         /\ values' = values
         /\ scheduledCount' = scheduledCount
         /\ Planned' = Planned
         /\ r' = r + 1
         /\ pc' = "loop" ]_vars

C6_Witness ==
  /\ pc = "loop"
  /\ Len(log) > 1
  /\ log[Len(log)].outcome = "Skipped"
  /\ Cell(values[log[Len(log)].row], idColIndex) = <<" ">>
  /\ log[Len(log) - 1].outcome = "Uploaded"
  /\ scheduledCount = 1
  /\ Ready

\* The status cell of a data row of the matrix.
StatusCell(row) == Cell(values[row], uploadedColIndex)

\* C7 as stated: at the final flush the status cell of every data row holds
\* the outcome the run determined for it as a descriptive text, the rows
\* without identifier included.
C7_EveryRowHasOutcome ==
  (AtFlush \/ pc = "done") =>
    \A row \in 2..Len(values) :
      \E i \in LogIndex :
        /\ log[i].row = row
        /\ log[i].text # Null
        /\ StatusCell(row) = log[i].text

\* C7 amended: at the final flush the status cell of every data row with an
\* identifier holds the text of the outcome the run determined for it
\* (MissingFile without a media file, Simulated in simulation mode, Uploaded
\* or Failed after its publish call); a row without identifier is Skipped
\* without any write and is as it was read.  The flush stores the matrix.
C7_OutcomeOfProcessedRows ==
  (AtFlush \/ pc = "done") =>
    /\ \A row \in 2..Len(values) :
         \E i \in LogIndex :
           LET e == log[i]
               idCell == trim(Cell(values[row], idColIndex))
               file == findFileByBase(basicAnswers.folder, idCell)
           IN /\ e.row = row
              /\ \A j \in LogIndex : log[j].row = row => j = i
              /\ IF idCell = <<>>
                 THEN /\ e.outcome = "Skipped"
                      /\ AtFlush => values[row] = storage.rows[row]
                 ELSE /\ StatusCell(row) = e.text
                      /\ IF file = Null
                         THEN e.outcome = "MissingFile" /\ e.text = MissingFileText
                         ELSE IF ~basicAnswers.doUpload
                         THEN /\ e.outcome = "Simulated"
                              /\ e.text = SimulatedText(file, e.publishAt)
                         ELSE /\ e.outcome \in {"Uploaded", "Failed"}
                              /\ \E c \in 1..Len(calls) :
                                   /\ calls[c].row = row
                                   /\ e.outcome = "Uploaded" =>
                                        e.text = UploadedText("v" \o ToString(c), e.publishAt)
                                   /\ e.outcome = "Failed" =>
                                        \E msg \in ErrMessages : e.text = ErrorText(msg)
    /\ pc = "done" => storage.rows = values

C7_Witness ==
  /\ AtFlush
  /\ Len(log) = 3
  /\ log[1].outcome = "Uploaded"
  /\ log[2].outcome = "Skipped"
  /\ StatusCell(log[2].row) = <<"o", "l", "d">>
  /\ log[3].outcome = "Failed"

\* C8: when the header row has no identifier column the run stops at header
\* resolution: the header row and the data rows are as they were read, no row
\* is processed, no media lookup and no Publisher call is made, and nothing
\* is written to storage.
C8_NoIdentifierColumn ==
  (values # <<>> /\ NoIdentifierColumn(storage.rows[1], basicAnswers.idColumn)) =>
    /\ pc \in {"resolve", "returned"}
    /\ values = storage.rows
    /\ log = <<>>
    /\ lookups = {}
    /\ calls = <<>>
    /\ writes = 0
    /\ idColIndex = 0
    /\ uploadedColIndex = 0

C8_Witness ==
  /\ pc = "returned"
  /\ Len(values) > 1
  /\ NoIdentifierColumn(values[1], basicAnswers.idColumn)
  /\ FindUploadedColumn(values[1]) = 0
  /\ \E row \in 2..Len(values) : values[row] # <<>>

\* C9 as stated: whenever the run is aborted by an error, no data row has
\* been processed: the loop has not started, the matrix is as it was read
\* apart from the header, no Publisher call was made and storage was not
\* written; the Schedule Planner does not fail inside the loop.
C9_FatalBeforeAnyRow ==
  pc = "caught" =>
    /\ r = 0
    /\ error # "RangeError: Invalid time value"
    /\ log = <<>>
    /\ lookups = {}
    /\ calls = <<>>
    /\ writes = 0

\* C10 as stated: after a row has ended MissingFile or Failed the run is not
\* aborted: the later rows are processed and the run reaches the flush.
C10_RowErrorsNeverAbort ==
  (\E i \in LogIndex : log[i].outcome \in {"MissingFile", "Failed"}) => pc # "caught"

\* C11: storage is written at most once per run and only by the final flush,
\* after the last data row: every other step leaves the persistent sheet as it
\* was at the start of the run, and the flush replaces its rows by the rows of
\* the in-memory matrix.
C11_SingleFinalWrite ==
  [][ \/ (storage' = storage /\ writes' = writes)
      \/ /\ AtFlush
         /\ writes = 0
         /\ writes' = 1
         /\ storage' = [ok |-> TRUE, rows |-> values]
         /\ pc' = "done" ]_vars

C11_Witness ==
  /\ pc = "done"
  /\ writes = 1
  /\ Len(values) = 3
  /\ storage.rows = values
  /\ log[1].outcome = "Uploaded"
  /\ StatusCell(2) = log[1].text
  /\ log[2].outcome = "MissingFile"

-----------------------------------------------------------------------------
(* The Schedule Planner on its own: computePublishAtForIndex is called for any
   slot, in any order, under one configuration. *)

\* Largest slot the planner is called with.
MaxSlot == 5

PlannerChoices ==
  { ScheduleOptions("start_interval", [nan |-> FALSE, ms |-> start * 60 * 1000], interval,
                    <<>>, <<>>, 1, 0) :
      start \in {0, 10, 23 * 60 + 50}, interval \in {0, 10, 90} }
  \cup
  { ScheduleOptions("daily", NoDate, 0, <<1970, 1, day>>, time, perDay, spacing) :
      day \in {2, 3}, time \in {<<10, 0>>, <<23, 30>>}, perDay \in {1, 2, 3},
      spacing \in {0, 45} }
  \cup
  { ScheduleOptions("none", NoDate, 0, <<>>, <<>>, 1, 0),
    ScheduleOptions("start_interval", NoDate, 10, <<>>, <<>>, 1, 0),
    ScheduleOptions("daily", NoDate, 0, <<1970, 1>>, <<10, 0>>, 1, 1) }

PlannerTimezones(opts) == IF opts.type = "daily" THEN {-60, 0, 300} ELSE {0}

PlannerInit ==
  /\ basicAnswers = [idColumn |-> T_bianhao, folder |-> [ok |-> FALSE, files |-> <<>>],
                     doUpload |-> FALSE]
  /\ scheduleOptions \in PlannerChoices
  /\ tzOffset \in PlannerTimezones(scheduleOptions)
  /\ storage = [ok |-> FALSE, rows |-> <<>>]
  /\ values = <<>>
  /\ idColIndex = 0
  /\ uploadedColIndex = 0
  /\ youtube = FALSE
  /\ scheduledCount = 0
  /\ r = 0
  /\ publishAt = Null
  /\ videoPath = Null
  /\ pc = "plan"
  /\ error = Null
  /\ calls = <<>>
  /\ lookups = {}
  /\ log = <<>>
  /\ writes = 0

\* computePublishAtForIndex(slot, scheduleOptions) returns.
PlanSlot ==
  /\ pc \in {"plan", "planned"}
  /\ \E slot \in 0..MaxSlot :
       /\ ~computePublishAtForIndex(slot, scheduleOptions, tzOffset).throws
       /\ scheduledCount' = slot
       /\ publishAt' = computePublishAtForIndex(slot, scheduleOptions, tzOffset).value
  /\ pc' = "planned"
  /\ UNCHANGED <<inputs, storage, values, idColIndex, uploadedColIndex, youtube, r,
                 videoPath, error, history>>

\* computePublishAtForIndex(slot, scheduleOptions) throws.
PlanSlotThrows ==
  /\ pc \in {"plan", "planned"}
  /\ \E slot \in 0..MaxSlot :
       /\ computePublishAtForIndex(slot, scheduleOptions, tzOffset).throws
       /\ scheduledCount' = slot
  /\ pc' = "caught"
  /\ error' = "RangeError: Invalid time value"
  /\ UNCHANGED <<inputs, storage, values, idColIndex, uploadedColIndex, youtube, r,
                 publishAt, videoPath, history>>

PlannerNext == PlanSlot \/ PlanSlotThrows

SpecPlanner == PlannerInit /\ [][PlannerNext]_vars

\* The ISO texts of the whole minutes of the first days of January 1970.
ISOTable == [k \in 0..(14 * 24 * 60) |-> toISOString(k * 60 * 1000)]

\* The instant an ISO text denotes, in milliseconds.
InstantOf(iso) == (CHOOSE k \in DOMAIN ISOTable : ISOTable[k] = iso) * 60 * 1000

\* C12: under a fixed-interval configuration the instant of publishAt(slot) is
\* startAt + slot * intervalMins minutes, whatever calls were made before.
C12_FixedIntervalExact ==
  (pc = "planned" /\ scheduleOptions.type = "start_interval") =>
    InstantOf(publishAt)
      = scheduleOptions.startAt.ms + scheduledCount * scheduleOptions.intervalMins * 60 * 1000

C12_Witness ==
  /\ pc = "planned"
  /\ scheduleOptions.type = "start_interval"
  /\ scheduleOptions.intervalMins = 90
  /\ scheduledCount = 3
  /\ publishAt = "1970-01-02T04:20:00.000Z"

\* The local wall-clock time of an ISO text, in minutes since the local
\* midnight that starts January 1.
LocalMinutes(iso, tz) == (InstantOf(iso) \div (60 * 1000)) - tz

\* Minutes from midnight of the slot's nominal time of day.
NominalTimeOfDay(slot, opts) ==
  opts.timeOfDay[1] * 60 + opts.timeOfDay[2] + (slot % opts.perDay) * opts.spacingMins

\* C13 as stated: under a daily configuration publishAt(slot) falls on the
\* calendar day startDate + floor(slot / perDay) at the time of day
\* timeOfDay + (slot mod perDay) * spacingMins minutes.
C13_DailyDayAndTime ==
  (pc = "planned" /\ scheduleOptions.type = "daily") =>
    /\ LocalMinutes(publishAt, tzOffset) \div (24 * 60) + 1
         = scheduleOptions.startDate[3] + scheduledCount \div scheduleOptions.perDay
    /\ LocalMinutes(publishAt, tzOffset) % (24 * 60)
         = NominalTimeOfDay(scheduledCount, scheduleOptions)

\* C13 amended: publishAt(slot) is the local instant of startDate at timeOfDay
\* plus floor(slot / perDay) days plus (slot mod perDay) * spacingMins minutes;
\* it falls on the day startDate + floor(slot / perDay) at the nominal time of
\* day exactly when that time is before midnight, and on a later day otherwise.
C13_DailyInstant ==
  (pc = "planned" /\ scheduleOptions.type = "daily") =>
    LET local == LocalMinutes(publishAt, tzOffset)
        day == scheduleOptions.startDate[3] + scheduledCount \div scheduleOptions.perDay
        nominal == NominalTimeOfDay(scheduledCount, scheduleOptions)
    IN /\ local = (day - 1) * 24 * 60 + nominal
       /\ nominal < 24 * 60 => (local \div (24 * 60) + 1 = day /\ local % (24 * 60) = nominal)
       /\ nominal >= 24 * 60 => local \div (24 * 60) + 1 > day

C13_Witness ==
  /\ pc = "planned"
  /\ scheduleOptions.type = "daily"
  /\ scheduleOptions.startDate = <<1970, 1, 2>>
  /\ scheduleOptions.timeOfDay = <<23, 30>>
  /\ scheduleOptions.perDay = 2
  /\ scheduleOptions.spacingMins = 45
  /\ tzOffset = -60
  /\ scheduledCount = 3
  /\ publishAt = "1970-01-03T23:15:00.000Z"

-----------------------------------------------------------------------------
(* The Media Matcher on its own: one data row, one lookup in one folder. *)

\* Largest number of entries of a folder listing.
MaxFiles == 3

FileNameChoices ==
  { <<"a", ".", "m">>, <<"a", "b", ".", "m">>, <<"a">>, <<"b", ".", "a", ".", "m">>,
    <<".", "a">> }

MatcherIdChoices == { <<"a">>, <<" ", "a", "b">>, <<"b">>, <<"b", ".", "a">> }

MatcherInit ==
  /\ basicAnswers \in [idColumn : {T_ID},
                       folder : {[ok |-> TRUE, files |-> f] : f \in SeqsUpTo(FileNameChoices, MaxFiles)}
                                  \cup {[ok |-> FALSE, files |-> <<>>]},
                       doUpload : {FALSE}]
  /\ scheduleOptions = ScheduleOptions("none", NoDate, 0, <<>>, <<>>, 1, 0)
  /\ tzOffset = 0
  /\ storage = [ok |-> FALSE, rows |-> <<>>]
  /\ values \in { << <<T_ID>>, <<id>> >> : id \in MatcherIdChoices }
  /\ idColIndex = 1
  /\ uploadedColIndex = 2
  /\ youtube = FALSE
  /\ scheduledCount = 0
  /\ r = 2
  /\ publishAt = Null
  /\ videoPath = Null
  /\ pc = "match"
  /\ error = Null
  /\ calls = <<>>
  /\ lookups = {}
  /\ log = <<>>
  /\ writes = 0

\* const videoPath = findFileByBase(folderPath, baseName)
Match ==
  /\ pc = "match"
  /\ videoPath' = CurrentFile
  /\ lookups' = lookups \cup {r}
  /\ pc' = "matched"
  /\ UNCHANGED <<inputs, storage, values, idColIndex, uploadedColIndex, youtube,
                 scheduledCount, r, publishAt, error, calls, log, writes>>

MatcherNext == Match

SpecMatcher == MatcherInit /\ [][MatcherNext]_vars

\* C15: the matcher returns a file whose base name equals the identifier when
\* the listing has one, wherever it stands; otherwise the first file of the
\* listing whose base name starts with the identifier; otherwise, and when
\* the folder cannot be listed, null.
C15_ExactBeforePrefix ==
  pc = "matched" =>
    LET files == basicAnswers.folder.files
        id == trim(values[2][1])
        exact == {i \in 1..Len(files) : ParseName(files[i]) = id}
        prefix == {i \in 1..Len(files) :
                     /\ Len(ParseName(files[i])) >= Len(id)
                     /\ \A k \in 1..Len(id) : ParseName(files[i])[k] = id[k]}
    IN IF ~basicAnswers.folder.ok THEN videoPath = Null
       ELSE IF exact # {} THEN \E i \in exact : videoPath = Join(files[i])
       ELSE IF prefix # {}
       THEN \E i \in prefix : videoPath = Join(files[i]) /\ \A j \in prefix : i <= j
       ELSE videoPath = Null

C15_Witness ==
  /\ pc = "matched"
  /\ basicAnswers.folder.files = << <<"a", "b", ".", "m">>, <<"b", ".", "a", ".", "m">>, <<"a", ".", "m">> >>
  /\ values[2][1] = <<"a">>
  /\ videoPath = "a.m"

-----------------------------------------------------------------------------
(* Properties of main(), continued *)

\* The calls made for a data row.
CallsFor(row) == {c \in 1..Len(calls) : calls[c].row = row}

\* C16 as stated: with publishing enabled, once the run has ended after header
\* resolution exactly one Publisher call was made for each data row with an
\* identifier and a media file and none for any other row; at any time no row
\* has two calls and, with no call pending, the calls are as many as the rows
\* that ended Uploaded or Failed.
C16_OneCallPerReadyRow ==
  basicAnswers.doUpload =>
    /\ \A row \in 2..Len(values) : Cardinality(CallsFor(row)) <= 1
    /\ \A c \in 1..Len(calls) : calls[c].row \in 2..Len(values) /\ HasFile(calls[c].row)
    /\ pc # "insert" =>
         Len(calls) = Cardinality({i \in LogIndex : log[i].outcome \in {"Uploaded", "Failed"}})
    /\ (pc \in {"done", "caught"} /\ r >= 2) =>
         \A row \in 2..Len(values) : HasFile(row) => Cardinality(CallsFor(row)) = 1

\* C17: a step of the row loop changes no cell of the matrix other than the
\* status cell of the row it is at; the header row changes only by the one
\* status column appended at header resolution when it has none.
C17_OnlyStatusCellChanges ==
  [][ values # <<>> =>
        /\ Len(values') = Len(values)
        /\ \A row \in 2..Len(values) : \A col \in 1..(Len(values[row]) + Len(values'[row])) :
             Cell(values'[row], col) # Cell(values[row], col) =>
               /\ pc \in {"loop", "insert"}
               /\ row = r
               /\ col = uploadedColIndex
        /\ values'[1] # values[1] =>
             /\ pc = "resolve"
             /\ FindUploadedColumn(values[1]) = 0
             /\ values'[1] = Append(values[1], T_Uploaded)
             /\ uploadedColIndex' = Len(values'[1]) ]_vars

C17_Witness ==
  /\ AtFlush
  /\ Len(values) = 4
  /\ values[1] = Append(storage.rows[1], T_Uploaded)
  /\ log[1].outcome = "Uploaded"
  /\ log[2].outcome = "Skipped"
  /\ log[3].outcome = "Failed"
  /\ Len(values[4]) = 3
  /\ uploadedColIndex = 2

\* C18: under the Immediate policy the slot counter stays 0, every computed
\* publishAt is null and every Publisher call asks for a public video; under
\* any other policy every Publisher call carries a publishAt and asks for a
\* private video.
C18_ImmediateOrScheduled ==
  /\ scheduleOptions.type = "none" =>
       /\ scheduledCount = 0
       /\ publishAt = Null
       /\ \A i \in LogIndex : log[i].publishAt = Null /\ log[i].slotAfter = 0
       /\ \A c \in 1..Len(calls) :
            calls[c].publishAt = Null /\ calls[c].privacyStatus = "public"
  /\ scheduleOptions.type # "none" =>
       \A c \in 1..Len(calls) :
         calls[c].publishAt # Null /\ calls[c].privacyStatus = "private"

C18_Witness ==
  /\ scheduleOptions.type = "none"
  /\ pc = "done"
  /\ Len(calls) = 2
  /\ log[1].outcome = "Uploaded"
  /\ log[2].outcome = "Failed"
  /\ log[1].text = << Timestamp \o " | videoId: v1 | publishAt: NOW" >>

----------------------------------------------------------------------------
\* Header Resolver on its own: the resolution of lines 308-324 applied to a
\* header row, and applied again to the header row the first one left.

MaxHeaderLen == 3

HeaderCellChoices == {T_ID, T_vid, T_Uploaded, T_yishangchuan, <<"I", "d", " ">>}

ResolverLabelChoices == {T_bianhao, T_vid, T_Uploaded}

ResolverInit ==
  /\ basicAnswers \in [idColumn : ResolverLabelChoices, folder : {[ok |-> TRUE, files |-> <<>>]},
                       doUpload : {FALSE}]
  /\ scheduleOptions = ScheduleOptions("none", NoDate, 0, <<>>, <<>>, 0, 0)
  /\ tzOffset = 0
  /\ storage = [ok |-> TRUE, rows |-> <<>>]
  /\ values \in {<<h>> : h \in SeqsUpTo(HeaderCellChoices, MaxHeaderLen)}
  /\ idColIndex = 0
  /\ uploadedColIndex = 0
  /\ youtube = FALSE
  /\ scheduledCount = 0
  /\ r = 0
  /\ publishAt = Null
  /\ videoPath = Null
  /\ pc = "resolve"
  /\ error = Null
  /\ calls = <<>>
  /\ lookups = {}
  /\ log = <<>>
  /\ writes = 0

\* The resolution of lines 308-324 on the header row an earlier resolution
\* of the same matrix returned.
ResolveAgain ==
  /\ pc = "auth"
  /\ LET idCol == FindIdColumn(values[1], basicAnswers.idColumn)
         upCol == FindUploadedColumn(values[1])
     IN IF idCol = 0
        THEN /\ pc' = "returned"
             /\ UNCHANGED <<values, idColIndex, uploadedColIndex>>
        ELSE /\ idColIndex' = idCol
             /\ IF upCol = 0
                THEN /\ uploadedColIndex' = Len(values[1]) + 1
                     /\ values' = [values EXCEPT ![1] = Append(values[1], T_Uploaded)]
                ELSE /\ uploadedColIndex' = upCol
                     /\ UNCHANGED values
             /\ pc' = "resolved"
  /\ UNCHANGED <<inputs, storage, youtube, scheduledCount, r, publishAt, videoPath,
                 error, history>>

ResolverNext ==
  \/ ResolveHeader
  \/ ResolveAgain

SpecResolver == ResolverInit /\ [][ResolverNext]_vars

\* C14: resolving a header row and then resolving the header row that
\* resulted yields the same identifier and status positions and leaves the
\* header row as the first resolution left it.
C14_ResolutionIdempotent ==
  [][ (pc = "auth" /\ pc' # "auth")
        => /\ pc' = "resolved"
           /\ idColIndex' = idColIndex
           /\ uploadedColIndex' = uploadedColIndex
           /\ values' = values ]_vars

----------------------------------------------------------------------------
\* The pipeline run again on the sheet an earlier run wrote: main() is
\* started anew, its answers are prompted anew, and it reads the workbook
\* the flush of the earlier run saved.  calls, lookups and log observe the
\* run that is going on; writes counts the flushes, one for each finished run.

MaxRuns == 2

MaxRerunRows == 2

RerunScheduleChoices ==
  { ScheduleOptions("none", NoDate, 0, <<>>, <<>>, 0, 0),
    ScheduleOptions("start_interval", [nan |-> FALSE, ms |-> 10 * 60 * 1000], 10, <<>>, <<>>, 0, 0),
    ScheduleOptions("start_interval", [nan |-> TRUE, ms |-> 0], 10, <<>>, <<>>, 0, 0) }

RerunStorageChoices ==
  { [ok |-> TRUE, rows |-> <<h>> \o rows] :
      h \in {<<T_ID>>, <<T_vid, <<"I", "d", " ">>, T_Uploaded>>},
      rows \in SeqsUpTo(RowChoices, MaxRerunRows) }

RerunInit ==
  /\ basicAnswers \in [idColumn : IdColumnChoices,
                       folder : {f \in FolderChoices : f.ok},
                       doUpload : BOOLEAN]
  /\ scheduleOptions \in RerunScheduleChoices
  /\ tzOffset = 0
  /\ storage \in RerunStorageChoices
  /\ values = <<>>
  /\ idColIndex = 0
  /\ uploadedColIndex = 0
  /\ youtube = FALSE
  /\ scheduledCount = 0
  /\ r = 0
  /\ publishAt = Null
  /\ videoPath = Null
  /\ pc = "read"
  /\ error = Null
  /\ calls = <<>>
  /\ lookups = {}
  /\ log = <<>>
  /\ writes = 0

\* main() is started again after a run that reached the flush.
Rerun ==
  /\ pc = "done"
  /\ writes < MaxRuns
  /\ \E d \in BOOLEAN :
       basicAnswers' = [basicAnswers EXCEPT !.doUpload = d]
  /\ scheduleOptions' \in RerunScheduleChoices
  /\ values' = <<>>
  /\ idColIndex' = 0
  /\ uploadedColIndex' = 0
  /\ youtube' = FALSE
  /\ scheduledCount' = 0
  /\ r' = 0
  /\ publishAt' = Null
  /\ videoPath' = Null
  /\ pc' = "read"
  /\ error' = Null
  /\ calls' = <<>>
  /\ lookups' = {}
  /\ log' = <<>>
  /\ UNCHANGED <<tzOffset, storage, writes>>

RerunNext ==
  \/ Next
  \/ Rerun

SpecRerun == RerunInit /\ [][RerunNext]_vars

\* A later run has started its loop and has ended, at the flush or in the
\* outer catch.
LaterRunEnded ==
  /\ r >= 2
  /\ \/ pc = "done" /\ writes >= 2
     \/ pc = "caught" /\ writes >= 1

\* C19: a run on a sheet an earlier run wrote processes every row with an
\* identifier again, whatever its status cell held: it calls the Publisher
\* anew for each such row with a media file when publishing is enabled,
\* counts the slots from 0 again, and overwrites the status with its own.
C19_RerunIgnoresStatus ==
  LaterRunEnded =>
    /\ \A row \in 2..Len(values) :
         ~IsBlankId(IdCellOf(values, row, idColIndex)) =>
           /\ \E i \in LogIndex :
                /\ log[i].row = row
                /\ log[i].outcome # "Skipped"
                /\ StatusCell(row) = log[i].text
           /\ (HasFile(row) /\ basicAnswers.doUpload) => Cardinality(CallsFor(row)) = 1
    /\ \A i \in LogIndex :
         (Consumed(log[i]) /\ \A j \in 1..(i - 1) : ~Consumed(log[j]))
           => log[i].slotBefore = 0

----------------------------------------------------------------------------
\* C20: the rows are processed one at a time in increasing row order, each
\* data row once: the rows with an outcome are the rows before the one the
\* loop is at, a pending Publisher call is the call of that row, a status
\* cell holds what its row's outcome wrote and the cell of a later row is as
\* it was read, and a run that has started its loop does not end anywhere but
\* at the final flush.
C20_SequentialAndFlushed ==
  /\ \A i, j \in LogIndex : i < j => log[i].row < log[j].row
  /\ r >= 2 => {log[i].row : i \in LogIndex} = 2..(r - 1)
  /\ pc = "insert" =>
       /\ calls # <<>>
       /\ calls[Len(calls)].row = r
       /\ \A i \in LogIndex : log[i].row # r
  /\ \A i \in LogIndex : log[i].text # Null => StatusCell(log[i].row) = log[i].text
  /\ (pc = "loop" \/ pc = "insert") =>
       \A row \in r..Len(values) :
         (pc = "loop" \/ row > r) =>
           StatusCell(row) = Cell(storage.rows[row], uploadedColIndex)
  /\ r >= 2 => pc # "caught"

====
